---- MODULE Spec2Model ----
(***************************************************************************)
(* Model of two components of fuel-core:                                   *)
(*   - VmDatabase (crates/fuel-core/src/database/vm_database.rs): the      *)
(*     range read / insert / remove operations over the ContractsState     *)
(*     column, keyed by ContractId ++ U256 slot key, and the host queries  *)
(*     timestamp and block_hash;                                           *)
(*   - NetworkOrchestrator (fuel-p2p/src/orchestrator.rs): the event loop  *)
(*     that dispatches p2p events to the node's channels, the GossipData   *)
(*     envelope it hands out, and the Service that starts and stops it.    *)
(***************************************************************************)
EXTENDS Integers, Sequences, FiniteSets, TLC

(***************************************************************************)
(* Bounds.  U256 is scaled down: U256_MAX stands for 2^256 - 1, so the     *)
(* keyspace is 0 .. U256_MAX and "start + n <= 2^256" reads                *)
(* start + n <= U256_MAX + 1.                                              *)
(***************************************************************************)
U256_MAX == 2

MaxRange == 2

MaxHeight == 2

MaxTakes == 3

NumCallers == 2

ReqCap == 1

BroadcastCap == 1

MpscCap == 1

Keys == 0 .. U256_MAX

\* Two contracts, ordered as their ids are in the column.
ContractIds == { 0, 1 }

\* Two slot values.
Bytes32Values == { 1, 2 }

(***************************************************************************)
(* Option<T>: None is the empty sequence, Some(v) the one-element one.     *)
(***************************************************************************)
None == << >>

Some(v) == << v >>

Unit == "()"

VARIABLES
    database,   \* VmDatabase.database, ContractsState column: MultiKey -> Option<Bytes32>
    pre,        \* the ContractsState column as it was when the last call started
    call,       \* the last call made on the VmDatabase and what it returned
    context,    \* VmDatabase.current_block_height, current_timestamp and coinbase
    blocks,     \* VmDatabase.database, what it records per block height
    host,       \* the last host query made on the VmDatabase and what it returned
    gossip_data,  \* one GossipData envelope in the hands of a consumer
    gossip_log,   \* what that envelope was made with and what its methods returned
    network_orchestrator,  \* Service.network_orchestrator holds Some(orchestrator)
    join,                  \* Service.join holds Some(JoinHandle)
    task,                  \* the task spawned by start(): where run() stands
    caller,                \* where each caller of start()/stop() stands
    restore,               \* the task spawned by stop() is awaiting the JoinHandle
    script,                \* what the scripted caller's calls have returned so far
    rx_request_event,      \* queue of P2pRequestEvent read by the loop
    next_event,            \* the event p2p_service.next_event() is ready to yield
    responders,            \* block requests whose responder task has not finished
    tx_subscribed,         \* live receivers of the tx_transaction broadcast channel
    tx_pending,            \* per receiver, the envelopes sent and not yet received
    rx_block,              \* queue behind tx_block
    rx_consensus,          \* queue behind tx_consensus
    rx_outbound_responses  \* queue behind tx_outbound_responses

vmVars == << database, pre, call >>

\* The two slots of the Service, its tasks and its callers.
lifecycleVars == << network_orchestrator, join, task, caller, restore >>

\* The p2p events and the block requests being answered.
eventVars == << next_event, responders, rx_outbound_responses >>

\* The channels that carry gossip to the node.
gossipVars == << tx_subscribed, tx_pending, rx_block, rx_consensus >>

p2pVars == << lifecycleVars, script, rx_request_event, eventVars, gossipVars >>

\* The execution context, the recorded blocks and the host queries.
hostVars == << context, blocks, host >>

\* One envelope and the calls made on it.
envelopeVars == << gossip_data, gossip_log >>

\* What no step of the p2p service touches.
otherVars == << vmVars, hostVars, envelopeVars >>

\* What no range operation touches.
nonVmVars == << hostVars, envelopeVars, p2pVars >>

vars == << database, pre, call, context, blocks, host, gossip_data, gossip_log,
           network_orchestrator, join, task, caller, restore,
           script, rx_request_event, next_event, responders, tx_subscribed,
           tx_pending, rx_block, rx_consensus, rx_outbound_responses >>

(***************************************************************************)
(* MultiKey: ContractId ++ slot key, compared bytewise (big-endian), i.e.  *)
(* lexicographically on the pair.                                          *)
(***************************************************************************)
MultiKey(contract_id, key) == << contract_id, key >>

MultiKeys == { MultiKey(c, k) : c \in ContractIds, k \in Keys }

EmptyDatabase == [ mk \in MultiKeys |-> None ]

\* The physical key that follows mk in the column's byte order.
NextMultiKey(mk) ==
    IF mk[2] < U256_MAX THEN MultiKey(mk[1], mk[2] + 1)
                        ELSE MultiKey(mk[1] + 1, 0)

(***************************************************************************)
(* Database::insert / Database::remove on one physical key: both return    *)
(* the prior value.                                                        *)
(***************************************************************************)
db_insert(db, mk, value) ==
    [ db |-> [ db EXCEPT ![mk] = Some(value) ], prior |-> db[mk] ]

\* Mutant: the remove deletes the key in the state of every contract.
db_remove_any_contract(db, mk) ==
    [ db |-> [ m \in DOMAIN db |-> IF m[2] = mk[2] THEN None ELSE db[m] ],
      prior |-> db[mk] ]

db_remove(db, mk) ==
    [ db |-> [ db EXCEPT ![mk] = None ], prior |-> db[mk] ]

(***************************************************************************)
(* Database::iter_all(column, prefix, start, Forward): the entries whose   *)
(* physical key is >= start and begins with prefix, in ascending order.    *)
(***************************************************************************)
RECURSIVE iter_all(_, _, _)
iter_all(db, prefix, start) ==
    IF start[1] \notin ContractIds \/ start[1] > prefix
    THEN << >>
    ELSE LET rest == iter_all(db, prefix, NextMultiKey(start))
         IN  IF db[start] # None /\ start[1] = prefix
             THEN << << start, db[start][1] >> >> \o rest
             ELSE rest

(***************************************************************************)
(* U256 arithmetic.                                                        *)
(***************************************************************************)
KeyspaceOverflow == "range op exceeded available keyspace"

\* U256::checked_add: None on overflow.
checked_add(a, b) == IF a + b > U256_MAX THEN None ELSE Some(a + b)

\* IncreaseStorageKey::increase: key + 1, or the keyspace error.
increase(key) ==
    LET sum == checked_add(key, 1)
    IN  IF sum = None THEN [ ok |-> FALSE, key |-> key ]
                      ELSE [ ok |-> TRUE, key |-> sum[1] ]

(***************************************************************************)
(* merkle_contract_state_range                                             *)
(***************************************************************************)
\* Mutant: a gap before the iterator's key is filled with the iterator's value.
RECURSIVE range_inner_loop_gap_as_value(_, _, _, _, _)
range_inner_loop_gap_as_value(expected_key, actual_key, value, results, range) ==
    IF expected_key <= actual_key /\ Len(results) < range
    THEN LET pushed == Append(results, Some(value))
             inc == increase(expected_key)
         IN  IF ~inc.ok
             THEN [ ok |-> FALSE, expected_key |-> expected_key, results |-> pushed ]
             ELSE range_inner_loop_gap_as_value(inc.key, actual_key, value, pushed, range)
    ELSE [ ok |-> TRUE, expected_key |-> expected_key, results |-> results ]

\* while (expected_key <= actual_key) && results.len() < range { ... }
RECURSIVE range_inner_loop(_, _, _, _, _)
range_inner_loop(expected_key, actual_key, value, results, range) ==
    IF expected_key <= actual_key /\ Len(results) < range
    THEN LET pushed == Append(results,
                              IF expected_key = actual_key THEN Some(value) ELSE None)
             inc == increase(expected_key)
         IN  IF ~inc.ok
             THEN [ ok |-> FALSE, expected_key |-> expected_key, results |-> pushed ]
             ELSE range_inner_loop(inc.key, actual_key, value, pushed, range)
    ELSE [ ok |-> TRUE, expected_key |-> expected_key, results |-> results ]

\* while results.len() < range { let entry = iterator.next(); ... }
RECURSIVE range_outer_loop(_, _, _, _, _)
range_outer_loop(iterator, pos, expected_key, results, range) ==
    IF Len(results) < range
    THEN IF pos > Len(iterator)
         THEN [ ok |-> TRUE, expected_key |-> expected_key, results |-> results ]
         ELSE LET entry == iterator[pos]
                  inner == range_inner_loop(expected_key, entry[1][2], entry[2],
                                            results, range)
              IN  IF ~inner.ok
                  THEN inner
                  ELSE range_outer_loop(iterator, pos + 1, inner.expected_key,
                                        inner.results, range)
    ELSE [ ok |-> TRUE, expected_key |-> expected_key, results |-> results ]

\* Mutant: padding stops at the end of the keyspace instead of failing.
RECURSIVE range_pad_loop_truncating(_, _, _)
range_pad_loop_truncating(expected_key, results, range) ==
    IF Len(results) < range
    THEN LET pushed == Append(results, None)
             inc == increase(expected_key)
         IN  IF ~inc.ok
             THEN [ ok |-> TRUE, expected_key |-> expected_key, results |-> pushed ]
             ELSE range_pad_loop_truncating(inc.key, pushed, range)
    ELSE [ ok |-> TRUE, expected_key |-> expected_key, results |-> results ]

\* Fill not initialized slots with None.
RECURSIVE range_pad_loop(_, _, _)
range_pad_loop(expected_key, results, range) ==
    IF Len(results) < range
    THEN LET pushed == Append(results, None)
             inc == increase(expected_key)
         IN  IF ~inc.ok
             THEN [ ok |-> FALSE, expected_key |-> expected_key, results |-> pushed ]
             ELSE range_pad_loop(inc.key, pushed, range)
    ELSE [ ok |-> TRUE, expected_key |-> expected_key, results |-> results ]

\* `range as usize` keeps the value of the u64 on the 64-bit targets the node
\* is built for.
merkle_contract_state_range(db, contract_id, start_key, range) ==
    LET iterator == iter_all(db, contract_id, MultiKey(contract_id, start_key))
        scanned == range_outer_loop(iterator, 1, start_key, << >>, range)
        padded == IF scanned.ok
                  THEN range_pad_loop(scanned.expected_key, scanned.results, range)
                  ELSE scanned
    IN  IF padded.ok
        THEN [ ok |-> TRUE, err |-> "", results |-> padded.results ]
        ELSE [ ok |-> FALSE, err |-> KeyspaceOverflow, results |-> << >> ]

(***************************************************************************)
(* merkle_contract_state_insert_range                                      *)
(***************************************************************************)
\* Mutant: a slot that already holds a value is not overwritten.
RECURSIVE insert_loop_keep_existing(_, _, _, _, _, _)
insert_loop_keep_existing(db, contract_id, current_key, values, i, found_unset) ==
    IF i > Len(values)
    THEN [ ok |-> TRUE, db |-> db, found_unset |-> found_unset ]
    ELSE LET mk == MultiKey(contract_id, current_key)
             ins == IF db[mk] = None THEN db_insert(db, mk, values[i])
                                     ELSE [ db |-> db, prior |-> db[mk] ]
             unset == found_unset \/ ins.prior = None
             inc == increase(current_key)
         IN  IF ~inc.ok
             THEN [ ok |-> FALSE, db |-> ins.db, found_unset |-> unset ]
             ELSE insert_loop_keep_existing(ins.db, contract_id, inc.key, values,
                                            i + 1, unset)

\* Mutant: found_unset is assigned, not or-ed: only the last slot counts.
RECURSIVE insert_loop_last_flag(_, _, _, _, _, _)
insert_loop_last_flag(db, contract_id, current_key, values, i, found_unset) ==
    IF i > Len(values)
    THEN [ ok |-> TRUE, db |-> db, found_unset |-> found_unset ]
    ELSE LET ins == db_insert(db, MultiKey(contract_id, current_key), values[i])
             unset == ins.prior = None
             inc == increase(current_key)
         IN  IF ~inc.ok
             THEN [ ok |-> FALSE, db |-> ins.db, found_unset |-> unset ]
             ELSE insert_loop_last_flag(ins.db, contract_id, inc.key, values,
                                        i + 1, unset)

\* for value in values { insert; found_unset |= prior.is_none(); increase()? }
RECURSIVE insert_loop(_, _, _, _, _, _)
insert_loop(db, contract_id, current_key, values, i, found_unset) ==
    IF i > Len(values)
    THEN [ ok |-> TRUE, db |-> db, found_unset |-> found_unset ]
    ELSE LET ins == db_insert(db, MultiKey(contract_id, current_key), values[i])
             unset == found_unset \/ ins.prior = None
             inc == increase(current_key)
         IN  IF ~inc.ok
             THEN [ ok |-> FALSE, db |-> ins.db, found_unset |-> unset ]
             ELSE insert_loop(ins.db, contract_id, inc.key, values, i + 1, unset)

\* Mutant: no preflight, the per-step increment alone detects the overflow.
merkle_contract_state_insert_range_no_preflight(db, contract_id, start_key, values) ==
    LET looped == insert_loop(db, contract_id, start_key, values, 1, FALSE)
    IN  IF ~looped.ok
        THEN [ ok |-> FALSE, err |-> KeyspaceOverflow, res |-> None, db |-> looped.db ]
        ELSE [ ok |-> TRUE, err |-> "", db |-> looped.db,
               res |-> IF looped.found_unset THEN None ELSE Some(Unit) ]

merkle_contract_state_insert_range(db, contract_id, start_key, values) ==
    IF checked_add(start_key, Len(values)) = None
    THEN [ ok |-> FALSE, err |-> KeyspaceOverflow, res |-> None, db |-> db ]
    ELSE LET looped == insert_loop(db, contract_id, start_key, values, 1, FALSE)
         IN  IF ~looped.ok
             THEN [ ok |-> FALSE, err |-> KeyspaceOverflow, res |-> None,
                    db |-> looped.db ]
             ELSE [ ok |-> TRUE, err |-> "", db |-> looped.db,
                    res |-> IF looped.found_unset THEN None ELSE Some(Unit) ]

(***************************************************************************)
(* merkle_contract_state_remove_range                                      *)
(***************************************************************************)
\* Mutant: found_unset is assigned, not or-ed: only the last slot counts.
RECURSIVE remove_loop_last_flag(_, _, _, _, _, _)
remove_loop_last_flag(db, contract_id, current_key, range, i, found_unset) ==
    IF i >= range
    THEN [ ok |-> TRUE, db |-> db, found_unset |-> found_unset ]
    ELSE LET rem == db_remove(db, MultiKey(contract_id, current_key))
             unset == rem.prior = None
             inc == increase(current_key)
         IN  IF ~inc.ok
             THEN [ ok |-> FALSE, db |-> rem.db, found_unset |-> unset ]
             ELSE remove_loop_last_flag(rem.db, contract_id, inc.key, range,
                                        i + 1, unset)

\* Mutant: the cursor is not advanced, the start slot is removed range times.
RECURSIVE remove_loop_stuck_cursor(_, _, _, _, _, _)
remove_loop_stuck_cursor(db, contract_id, current_key, range, i, found_unset) ==
    IF i >= range
    THEN [ ok |-> TRUE, db |-> db, found_unset |-> found_unset ]
    ELSE LET rem == db_remove(db, MultiKey(contract_id, current_key))
             unset == found_unset \/ rem.prior = None
             inc == increase(current_key)
         IN  IF ~inc.ok
             THEN [ ok |-> FALSE, db |-> rem.db, found_unset |-> unset ]
             ELSE remove_loop_stuck_cursor(rem.db, contract_id, current_key, range,
                                           i + 1, unset)

\* for _ in 0..range { remove; found_unset |= prior.is_none(); increase()? }
RECURSIVE remove_loop(_, _, _, _, _, _)
remove_loop(db, contract_id, current_key, range, i, found_unset) ==
    IF i >= range
    THEN [ ok |-> TRUE, db |-> db, found_unset |-> found_unset ]
    ELSE LET rem == db_remove(db, MultiKey(contract_id, current_key))
             unset == found_unset \/ rem.prior = None
             inc == increase(current_key)
         IN  IF ~inc.ok
             THEN [ ok |-> FALSE, db |-> rem.db, found_unset |-> unset ]
             ELSE remove_loop(rem.db, contract_id, inc.key, range, i + 1, unset)

merkle_contract_state_remove_range(db, contract_id, start_key, range) ==
    LET looped == remove_loop(db, contract_id, start_key, range, 0, FALSE)
    IN  IF ~looped.ok
        THEN [ ok |-> FALSE, err |-> KeyspaceOverflow, res |-> None, db |-> looped.db ]
        ELSE [ ok |-> TRUE, err |-> "", db |-> looped.db,
               res |-> IF looped.found_unset THEN None ELSE Some(Unit) ]

(***************************************************************************)
(* The calls a VM makes on one VmDatabase.                                 *)
(***************************************************************************)
RECURSIVE SeqsUpTo(_, _)
SeqsUpTo(S, n) ==
    IF n = 0 THEN { << >> }
    ELSE LET shorter == SeqsUpTo(S, n - 1)
         IN  shorter \cup { Append(s, x) : s \in shorter, x \in S }

ValueSeqs == SeqsUpTo(Bytes32Values, MaxRange)

Ranges == 0 .. MaxRange

NoCall ==
    [ op |-> "none", follows |-> "none", contract_id |-> 0, start_key |-> 0,
      range |-> 0, values |-> << >>, ok |-> TRUE, err |-> "", res |-> None,
      results |-> << >> ]

\* No call is outstanding: the VM is between two calls on the VmDatabase.
Idle == call.op = "none" /\ host.op = "none"

\* StorageMutate::<ContractsState>::insert on the VmDatabase: one slot.
StorageInsert(contract_id, key, value) ==
    LET ins == db_insert(database, MultiKey(contract_id, key), value)
    IN  /\ Idle
        /\ database' = ins.db
        /\ pre' = ins.db
        /\ call' = NoCall
        /\ UNCHANGED nonVmVars

DoStateRange(contract_id, start_key, range, follows, values) ==
    LET r == merkle_contract_state_range(database, contract_id, start_key, range)
    IN  /\ database' = database
        /\ pre' = database
        /\ call' = [ NoCall EXCEPT !.op = "state_range", !.follows = follows,
                                   !.contract_id = contract_id,
                                   !.start_key = start_key, !.range = range,
                                   !.values = values,
                                   !.ok = r.ok, !.err = r.err, !.results = r.results ]
        /\ UNCHANGED nonVmVars

StateRange(contract_id, start_key, range) ==
    Idle /\ DoStateRange(contract_id, start_key, range, "none", << >>)

StateInsertRange(contract_id, start_key, values) ==
    LET r == merkle_contract_state_insert_range(database, contract_id, start_key, values)
    IN  /\ Idle
        /\ database' = r.db
        /\ pre' = database
        /\ call' = [ NoCall EXCEPT !.op = "state_insert_range",
                                   !.contract_id = contract_id,
                                   !.start_key = start_key, !.range = Len(values),
                                   !.values = values,
                                   !.ok = r.ok, !.err = r.err, !.res = r.res ]
        /\ UNCHANGED nonVmVars

DoStateRemoveRange(contract_id, start_key, range, follows) ==
    LET r == merkle_contract_state_remove_range(database, contract_id, start_key, range)
    IN  /\ database' = r.db
        /\ pre' = database
        /\ call' = [ NoCall EXCEPT !.op = "state_remove_range", !.follows = follows,
                                   !.contract_id = contract_id,
                                   !.start_key = start_key, !.range = range,
                                   !.ok = r.ok, !.err = r.err, !.res = r.res ]
        /\ UNCHANGED nonVmVars

StateRemoveRange(contract_id, start_key, range) ==
    Idle /\ DoStateRemoveRange(contract_id, start_key, range, "none")

\* The caller reads back the span it has just inserted (tests::insert_range).
StateRangeAfterInsert ==
    /\ call.op = "state_insert_range"
    /\ call.ok
    /\ DoStateRange(call.contract_id, call.start_key, Len(call.values),
                    "state_insert_range", call.values)

\* The caller removes the span it has just removed a second time.
StateRemoveRangeAgain ==
    /\ call.op = "state_remove_range"
    /\ call.follows = "none"
    /\ call.ok
    /\ DoStateRemoveRange(call.contract_id, call.start_key, call.range,
                          "state_remove_range")

\* The caller takes the result; the VmDatabase is ready for the next call.
Return ==
    /\ call.op # "none"
    /\ database' = database
    /\ pre' = database
    /\ call' = NoCall
    /\ UNCHANGED nonVmVars


(***************************************************************************)
(* Host queries of the VmDatabase (InterpreterStorage::block_height,       *)
(* timestamp, block_hash and coinbase).                                    *)
(***************************************************************************)
Heights == 0 .. MaxHeight

\* Tai64(secs); `.0` reads the seconds back.
Tai64(secs) == [ tai64 |-> secs ]

Tai64Values == { Tai64(10), Tai64(20) }

Bytes32_zeroed == 0

\* Address::default() and the address of a block producer.
Address_zeroed == "address0"

Addresses == { Address_zeroed, "address1" }

\* What the store may record for one height: the time of the block and the
\* id of the block, each of them possibly missing.
BlockRecords ==
    [ time : { None } \cup { Some(t) : t \in Tai64Values },
      id : { None } \cup { Some(b) : b \in Bytes32Values } ]

NoBlocks == [ h \in Heights |-> [ time |-> None, id |-> None ] ]

\* Database::block_time(height) -> Result<Tai64, NotFound>
block_time(store, height) ==
    IF store[height].time = None
    THEN [ ok |-> FALSE, val |-> Tai64(0), err |-> "NotFound" ]
    ELSE [ ok |-> TRUE, val |-> store[height].time[1], err |-> "" ]

\* Database::get_block_id(height) -> Result<Option<Bytes32>>
get_block_id(store, height) == store[height].id

NoHostCall ==
    [ op |-> "none", height |-> 0, ok |-> TRUE, val |-> 0, err |-> "",
      store_read |-> FALSE ]

HostResult(op, height, ok, val, err, store_read) ==
    [ op |-> op, height |-> height, ok |-> ok, val |-> val, err |-> err,
      store_read |-> store_read ]

\* Mutant: the time of the current height is looked up in the store as well.
timestamp_of_store(ctx, store, height) ==
    IF height > ctx.current_block_height
    THEN HostResult("timestamp", height, FALSE, 0,
                    "block height too high for timestamp", FALSE)
    ELSE LET looked_up == block_time(store, height)
         IN  IF looked_up.ok
             THEN HostResult("timestamp", height, TRUE, looked_up.val.tai64, "", TRUE)
             ELSE HostResult("timestamp", height, FALSE, 0, looked_up.err, TRUE)

\* InterpreterStorage::timestamp
timestamp(ctx, store, height) ==
    IF height > ctx.current_block_height
    THEN HostResult("timestamp", height, FALSE, 0,
                    "block height too high for timestamp", FALSE)
    ELSE IF height = ctx.current_block_height
    THEN HostResult("timestamp", height, TRUE, ctx.current_timestamp.tai64, "", FALSE)
    ELSE LET looked_up == block_time(store, height)
         IN  IF looked_up.ok
             THEN HostResult("timestamp", height, TRUE, looked_up.val.tai64, "", TRUE)
             ELSE HostResult("timestamp", height, FALSE, 0, looked_up.err, TRUE)

\* Mutant: height 0 is looked up in the store like any past height.
block_hash_of_genesis(ctx, store, block_height) ==
    IF block_height >= ctx.current_block_height
    THEN HostResult("block_hash", block_height, TRUE, Bytes32_zeroed, "", FALSE)
    ELSE LET id == get_block_id(store, block_height)
         IN  IF id # None
             THEN HostResult("block_hash", block_height, TRUE, id[1], "", TRUE)
             ELSE HostResult("block_hash", block_height, FALSE, 0, "NotFound", TRUE)

\* InterpreterStorage::block_hash
block_hash(ctx, store, block_height) ==
    IF block_height >= ctx.current_block_height \/ block_height = 0
    THEN HostResult("block_hash", block_height, TRUE, Bytes32_zeroed, "", FALSE)
    ELSE LET id == get_block_id(store, block_height)
         IN  IF id # None
             THEN HostResult("block_hash", block_height, TRUE, id[1], "", TRUE)
             ELSE HostResult("block_hash", block_height, FALSE, 0, "NotFound", TRUE)

\* InterpreterStorage::block_height
InterpreterStorage_block_height(ctx) ==
    HostResult("block_height", 0, TRUE, ctx.current_block_height, "", FALSE)

\* InterpreterStorage::coinbase
InterpreterStorage_coinbase(ctx) ==
    HostResult("coinbase", 0, TRUE, ctx.coinbase, "", FALSE)

\* The VM asks for the current block height.
BlockHeight ==
    /\ Idle
    /\ host' = InterpreterStorage_block_height(context)
    /\ UNCHANGED << context, blocks >>
    /\ UNCHANGED << vmVars, envelopeVars, p2pVars >>

\* The VM asks for the coinbase address.
Coinbase ==
    /\ Idle
    /\ host' = InterpreterStorage_coinbase(context)
    /\ UNCHANGED << context, blocks >>
    /\ UNCHANGED << vmVars, envelopeVars, p2pVars >>

\* The VM takes the answer of a host query.
HostReturn ==
    /\ host.op # "none"
    /\ host' = NoHostCall
    /\ UNCHANGED << context, blocks >>
    /\ UNCHANGED << vmVars, envelopeVars, p2pVars >>

\* The VM asks for the time of the block at a height.
Timestamp(height) ==
    /\ Idle
    /\ host' = timestamp(context, blocks, height)
    /\ UNCHANGED << context, blocks >>
    /\ UNCHANGED << vmVars, envelopeVars, p2pVars >>

\* The VM asks for the hash of the block at a height.
BlockHash(block_height) ==
    /\ Idle
    /\ host' = block_hash(context, blocks, block_height)
    /\ UNCHANGED << context, blocks >>
    /\ UNCHANGED << vmVars, envelopeVars, p2pVars >>

(***************************************************************************)
(* NetworkOrchestrator and Service (fuel-p2p/src/orchestrator.rs)          *)
(***************************************************************************)
Callers == 1 .. NumCallers

\* The caller that starts and stops the service while the loop is studied.
Controllers == { CHOOSE c \in Callers : \A d \in Callers : c <= d }

\* Two consumers of tx_transaction.
Receivers == { "receiver1", "receiver2" }

\* The payloads, gossip message ids and peer ids of the gossip messages the
\* p2p service delivers.
Txs == { "tx1", "tx2" }

MessageIds == { "message1", "message2" }

PeerIds == { "peer1", "peer2" }

\* Two gossip messages, from different peers under different message ids.
GossipsubMessages ==
    { [ body |-> "tx1", message_id |-> "message1", peer_id |-> "peer1" ],
      [ body |-> "tx2", message_id |-> "message2", peer_id |-> "peer2" ] }

\* GossipsubMessage variants carried by a FuelP2PEvent::GossipsubMessage.
GossipsubMessageKinds == { "NewTx", "NewBlock", "ConsensusVote" }

\* P2pRequestEvent values that other components put on the request channel.
\* peer_ok tells whether the reported envelope's peer_id() bytes parse as a
\* PeerId.
RequestEvent(kind, peer_ok) == [ kind |-> kind, peer_ok |-> peer_ok ]

StopEvent == RequestEvent("Stop", TRUE)

ComponentRequestEvents ==
    { RequestEvent(k, TRUE) :
        k \in { "RequestBlock", "BroadcastNewBlock", "BroadcastNewTransaction",
                "BroadcastConsensusVote" } }
    \cup { RequestEvent("GossipsubMessageReport", ok) : ok \in BOOLEAN }

\* FuelP2PEvent::GossipsubMessage { message, message_id, peer_id, .. }
GossipsubMessageEvent(kind, body, message_id, peer_id) ==
    [ event |-> "GossipsubMessage", kind |-> kind, body |-> body,
      message_id |-> message_id, peer_id |-> peer_id ]

\* FuelP2PEvent::RequestMessage { RequestBlock(block_height), request_id }
RequestMessageEvent(block_height, request_id) ==
    [ event |-> "RequestMessage", block_height |-> block_height,
      request_id |-> request_id ]

\* Two block requests of peers, each under its own request id.
RequestMessages ==
    { [ block_height |-> "height1", request_id |-> "request1" ],
      [ block_height |-> "height2", request_id |-> "request2" ] }

\* The events next_event() yields to the loop.
P2pEvents ==
    { GossipsubMessageEvent(kind, message.body, message.message_id, message.peer_id) :
        kind \in GossipsubMessageKinds, message \in GossipsubMessages }
    \cup { RequestMessageEvent(request.block_height, request.request_id) :
             request \in RequestMessages }

\* The sealed block the database holds at a height.
SealedBlock(block_height) == [ sealed_block_at |-> block_height ]

OutboundResponse_ResponseBlock(block) == [ kind |-> "ResponseBlock", body |-> block ]

\* Mutant: the peer id and the message id are stored in each other's field.
GossipData_new_swapped(value, peer_id, message_id) ==
    [ data |-> Some(value), peer_id |-> message_id, message_id |-> peer_id ]

\* GossipData::new
GossipData_new(value, peer_id, message_id) ==
    [ data |-> Some(value), peer_id |-> peer_id, message_id |-> message_id ]

TransactionBroadcast_NewTransaction(tx) == [ kind |-> "NewTransaction", body |-> tx ]

BlockBroadcast_NewBlock(block) == [ kind |-> "NewBlock", body |-> block ]

ConsensusBroadcast_NewVote(vote) == [ kind |-> "NewVote", body |-> vote ]

(***************************************************************************)
(* GossipData, the envelope handed to the consumers, and its NetworkData   *)
(* methods.                                                                *)
(***************************************************************************)
\* The payloads an envelope may carry.
Payloads ==
    { TransactionBroadcast_NewTransaction(tx) : tx \in Txs }
    \cup { BlockBroadcast_NewBlock(block) : block \in Txs }
    \cup { ConsensusBroadcast_NewVote(vote) : vote \in Txs }

\* MessageId.0: the bytes of a gossip message id.
MessageId_0(message_id) == [ bytes_of_message_id |-> message_id ]

\* PeerId::to_bytes
PeerId_to_bytes(peer_id) == [ bytes_of_peer_id |-> peer_id ]

\* Mutant: take_data hands out a copy and leaves the payload in place.
GossipData_take_data_cloning(gossip) == [ ret |-> gossip.data, gossip |-> gossip ]

\* NetworkData::take_data: self.data.take()
GossipData_take_data(gossip) ==
    [ ret |-> gossip.data, gossip |-> [ gossip EXCEPT !.data = None ] ]

\* NetworkData::message_id: self.message_id.0.clone()
GossipData_message_id(gossip) == MessageId_0(gossip.message_id)

\* NetworkData::peer_id: self.peer_id.to_bytes()
GossipData_peer_id(gossip) == PeerId_to_bytes(gossip.peer_id)

NoGossipLog(data, from_peer, under_id) ==
    [ made |-> [ data |-> data, peer_id |-> from_peer, message_id |-> under_id ],
      takes |-> << >>,
      read |-> [ op |-> "none", val |-> None ] ]

\* A consumer calls take_data on the envelope.
TakeData ==
    /\ Len(gossip_log.takes) < MaxTakes
    /\ LET taken == GossipData_take_data(gossip_data)
       IN  /\ gossip_data' = taken.gossip
           /\ gossip_log' = [ gossip_log EXCEPT !.takes = Append(@, taken.ret) ]
    /\ UNCHANGED << vmVars, hostVars, p2pVars >>

\* A consumer calls message_id on the envelope.
ReadMessageId ==
    /\ gossip_log' = [ gossip_log EXCEPT
                         !.read = [ op |-> "message_id", val |-> GossipData_message_id(gossip_data) ] ]
    /\ UNCHANGED gossip_data
    /\ UNCHANGED << vmVars, hostVars, p2pVars >>

\* A consumer calls peer_id on the envelope.
ReadPeerId ==
    /\ gossip_log' = [ gossip_log EXCEPT
                         !.read = [ op |-> "peer_id", val |-> GossipData_peer_id(gossip_data) ] ]
    /\ UNCHANGED gossip_data
    /\ UNCHANGED << vmVars, hostVars, p2pVars >>

(***************************************************************************)
(* tokio::sync::broadcast::Sender::send is synchronous: with no live       *)
(* receiver it fails and the value is dropped; otherwise the value becomes *)
(* visible to every live receiver, and a receiver that is a full channel   *)
(* capacity behind loses its oldest value.                                 *)
(***************************************************************************)
broadcast_send(pending, subscribed, value) ==
    [ r \in Receivers |->
        IF r \notin subscribed THEN pending[r]
        ELSE IF Len(pending[r]) < BroadcastCap THEN Append(pending[r], value)
        ELSE Append(Tail(pending[r]), value) ]

(***************************************************************************)
(* tokio::sync::mpsc::Sender::send is an async fn: `let _ = tx.send(v);`   *)
(* builds the future and drops it without polling it, so nothing is put on *)
(* the queue.                                                              *)
(***************************************************************************)
\* `tx.send(v).await` as the loop would run it: it waits while the queue is
\* full.
mpsc_send_awaiting(queue, value) ==
    [ waits |-> Len(queue) >= MpscCap,
      queue |-> IF Len(queue) < MpscCap THEN Append(queue, value) ELSE queue ]

\* What `let _ = tx.send(v);` does to the queue, and whether the sender waits
\* for capacity.
mpsc_send_not_awaited(queue, value) == [ waits |-> FALSE, queue |-> queue ]

\* Mutant: the awaited send puts the value on the queue twice.
mpsc_send_awaited_twice(queue, value) == Append(Append(queue, value), value)

\* `tx.send(v).await` on a queue with room.
mpsc_send_awaited(queue, value) == Append(queue, value)

\* Mutant: the receive end of the request channel outlives a run() that
\* failed or panicked.
RequestReceiverKept == TRUE

\* The receive end of the request channel lives in the orchestrator; it is
\* dropped with it when run() fails or panics.
RequestReceiverAlive == task \notin { "err", "panicked" }

\* The join lock is held by a start() call between its first statement and
\* its return.
JoinLocked == \E c \in Callers : caller[c].pc = "start_locked"

\* What a call has returned; "pending" until it returns.
Returned(pc, ret) == [ pc |-> pc, ret |-> ret ]

\* Mutant: the two errors of start() are returned in each other's place.
start_errors_swapped(join_slot, orchestrator_slot) ==
    IF ~join_slot
    THEN IF orchestrator_slot
         THEN [ ret |-> "Ok", join |-> TRUE, network_orchestrator |-> FALSE,
                spawn |-> TRUE ]
         ELSE [ ret |-> "AlreadyStarted", join |-> FALSE,
                network_orchestrator |-> FALSE, spawn |-> FALSE ]
    ELSE [ ret |-> "StartingWhileStopping", join |-> TRUE,
           network_orchestrator |-> orchestrator_slot, spawn |-> FALSE ]

\* Mutant: start() reads the parked orchestrator and leaves it in its slot.
start_keeping_orchestrator(join_slot, orchestrator_slot) ==
    IF ~join_slot
    THEN IF orchestrator_slot
         THEN [ ret |-> "Ok", join |-> TRUE, network_orchestrator |-> TRUE,
                spawn |-> TRUE ]
         ELSE [ ret |-> "StartingWhileStopping", join |-> FALSE,
                network_orchestrator |-> FALSE, spawn |-> FALSE ]
    ELSE [ ret |-> "AlreadyStarted", join |-> TRUE,
           network_orchestrator |-> orchestrator_slot, spawn |-> FALSE ]

(***************************************************************************)
(* Service::start once it holds the join lock: what it returns, what it    *)
(* leaves in the two slots and whether it spawns run().                    *)
(***************************************************************************)
start(join_slot, orchestrator_slot) ==
    IF ~join_slot
    THEN IF orchestrator_slot
         THEN [ ret |-> "Ok", join |-> TRUE, network_orchestrator |-> FALSE,
                spawn |-> TRUE ]
         ELSE [ ret |-> "StartingWhileStopping", join |-> FALSE,
                network_orchestrator |-> FALSE, spawn |-> FALSE ]
    ELSE [ ret |-> "AlreadyStarted", join |-> TRUE,
           network_orchestrator |-> orchestrator_slot, spawn |-> FALSE ]

\* Mutant: stop() reads the handle and leaves it in its slot.
stop_keeping_handle(join_slot) ==
    IF join_slot THEN [ taken |-> TRUE, join |-> TRUE ]
    ELSE [ taken |-> FALSE, join |-> FALSE ]

\* Service::stop, its first statement: self.join.lock().await.take()
stop(join_slot) ==
    IF join_slot THEN [ taken |-> TRUE, join |-> FALSE ]
    ELSE [ taken |-> FALSE, join |-> FALSE ]

(***************************************************************************)
(* Service::start in three steps: the call is made and waits for the join  *)
(* lock, the join lock is taken, then the body runs under it.  The         *)
(* orchestrator lock is only ever held for one statement, so it needs no   *)
(* step of its own.                                                        *)
(***************************************************************************)
start_call(c) ==
    /\ caller[c].pc = "idle"
    /\ caller' = [ caller EXCEPT ![c] = Returned("start_called", "pending") ]
    /\ UNCHANGED << network_orchestrator, join, task, restore, rx_request_event >>
    /\ UNCHANGED << eventVars, gossipVars, otherVars >>

start_lock(c) ==
    /\ caller[c].pc = "start_called"
    /\ ~JoinLocked
    /\ caller' = [ caller EXCEPT ![c] = Returned("start_locked", "pending") ]
    /\ UNCHANGED << network_orchestrator, join, task, restore, rx_request_event >>
    /\ UNCHANGED << eventVars, gossipVars, otherVars >>

start_body(c) ==
    /\ caller[c].pc = "start_locked"
    /\ LET started == start(join, network_orchestrator)
       IN  /\ join' = started.join
           /\ network_orchestrator' = started.network_orchestrator
           /\ task' = IF started.spawn THEN "spawned" ELSE task
           /\ caller' = [ caller EXCEPT ![c] = Returned("idle", started.ret) ]
    /\ UNCHANGED << restore, rx_request_event >>
    /\ UNCHANGED << eventVars, gossipVars, otherVars >>

\* Service::stop is called and waits for the join lock.
stop_call(c) ==
    /\ caller[c].pc = "idle"
    /\ caller' = [ caller EXCEPT ![c] = Returned("stop_called", "pending") ]
    /\ UNCHANGED << network_orchestrator, join, task, restore, rx_request_event >>
    /\ UNCHANGED << eventVars, gossipVars, otherVars >>

\* Service::stop from the join lock up to the awaited send; with no handle to
\* take it returns None at once.
stop_take(c) ==
    /\ caller[c].pc = "stop_called"
    /\ ~JoinLocked
    /\ LET stopped == stop(join)
       IN  /\ join' = stopped.join
           /\ caller' = [ caller EXCEPT ![c] =
                            IF stopped.taken THEN Returned("stop_send", "pending")
                            ELSE Returned("idle", "None") ]
    /\ UNCHANGED << network_orchestrator, task, restore, rx_request_event >>
    /\ UNCHANGED << eventVars, gossipVars, otherVars >>

\* Service::stop from the awaited send of Stop to the spawn of the task that
\* awaits the JoinHandle; it returns Some(handle of that task).
stop_send(c) ==
    /\ caller[c].pc = "stop_send"
    /\ IF RequestReceiverAlive
       THEN /\ Len(rx_request_event) < ReqCap
            /\ rx_request_event' = mpsc_send_awaited(rx_request_event, StopEvent)
       ELSE rx_request_event' = rx_request_event
    /\ restore' = TRUE
    /\ caller' = [ caller EXCEPT ![c] = Returned("idle", "Some") ]
    /\ UNCHANGED << network_orchestrator, join, task >>
    /\ UNCHANGED << eventVars, gossipVars, otherVars >>

\* The steps of start() and stop() made by any caller.
StartCall(c) == start_call(c) /\ UNCHANGED script

StartLock(c) == start_lock(c) /\ UNCHANGED script

Start(c) == start_body(c) /\ UNCHANGED script

StopCall(c) == stop_call(c) /\ UNCHANGED script

StopTake(c) == stop_take(c) /\ UNCHANGED script

StopSend(c) == stop_send(c) /\ UNCHANGED script

(***************************************************************************)
(* The caller of the test start_stop_works, without its sleeps: start(),   *)
(* stop(), start(), each call made when the one before has returned.       *)
(* script holds what the calls made so far returned.                       *)
(***************************************************************************)
ScriptCaller == CHOOSE c \in Callers : \A d \in Callers : c <= d

ScriptCalls == << "start", "stop", "start" >>

ScriptNextCall(op) ==
    /\ Len(script) < Len(ScriptCalls)
    /\ ScriptCalls[Len(script) + 1] = op

ScriptReturn ==
    script' = IF caller'[ScriptCaller].pc = "idle"
              THEN Append(script, caller'[ScriptCaller].ret)
              ELSE script

ScriptStartCall == ScriptNextCall("start") /\ start_call(ScriptCaller) /\ ScriptReturn

ScriptStartLock == ScriptNextCall("start") /\ start_lock(ScriptCaller) /\ ScriptReturn

ScriptStart == ScriptNextCall("start") /\ start_body(ScriptCaller) /\ ScriptReturn

ScriptStopCall == ScriptNextCall("stop") /\ stop_call(ScriptCaller) /\ ScriptReturn

ScriptStopTake == ScriptNextCall("stop") /\ stop_take(ScriptCaller) /\ ScriptReturn

ScriptStopSend == ScriptNextCall("stop") /\ stop_send(ScriptCaller) /\ ScriptReturn

\* Mutant: the restore task stores None whatever run() returned.
restored_slot_none(ended, orchestrator_slot) ==
    CASE ended = "ok" -> FALSE
      [] ended = "err" -> FALSE
      [] OTHER -> orchestrator_slot

\* if let Ok(res) = join_handle.await { *network_orchestrator = res.ok(); }
\* A run() that returned Ok(self) is put back, one that returned Err leaves
\* None, and after a panic the slot is not written.
restored_slot(ended, orchestrator_slot) ==
    CASE ended = "ok" -> TRUE
      [] ended = "err" -> FALSE
      [] OTHER -> orchestrator_slot

\* The task spawned by stop(): once the run task has ended, put what it
\* returned into the orchestrator slot.
RestoreFinish ==
    /\ restore
    /\ task \in { "ok", "err", "panicked" }
    /\ restore' = FALSE
    /\ network_orchestrator' = restored_slot(task, network_orchestrator)
    /\ task' = IF task = "ok" THEN "none" ELSE task
    /\ UNCHANGED << join, caller, script, rx_request_event >>
    /\ UNCHANGED << eventVars, gossipVars, otherVars >>

\* NetworkOrchestrator::run before the loop: FuelP2PService::new(..)?
RunNewService(created) ==
    /\ task = "spawned"
    /\ task' = IF created THEN "running" ELSE "err"
    /\ UNCHANGED << network_orchestrator, join, caller, restore, script,
                    rx_request_event >>
    /\ UNCHANGED << eventVars, gossipVars, otherVars >>

(***************************************************************************)
(* NetworkOrchestrator::run, the select! loop.  Of its three branches:     *)
(*   - rx_outbound_responses.recv() never becomes ready, because the only  *)
(*     send on tx_outbound_responses is a future that is dropped unpolled  *)
(*     (ResponderFinish), so the branch has no step here;                  *)
(*   - p2p_service.next_event() is HandleGossipsubMessage and              *)
(*     HandleRequestMessage; any other event (`_ => {}`) changes nothing;  *)
(*   - rx_request_event.recv() is HandleRequestEvent.                      *)
(* select! takes any ready branch, so the steps interleave freely.         *)
(***************************************************************************)
\* The p2p service has an event for next_event() to yield.
P2pEvent(event) ==
    /\ task = "running"
    /\ next_event = None
    /\ next_event' = Some(event)
    /\ UNCHANGED << lifecycleVars, script, rx_request_event, responders,
                    rx_outbound_responses >>
    /\ UNCHANGED << gossipVars, otherVars >>

\* select! branch p2p_service.next_event(): a GossipsubMessage.
HandleGossipsubMessage(kind, body, message_id, peer_id) ==
    /\ task = "running"
    /\ next_event = Some(GossipsubMessageEvent(kind, body, message_id, peer_id))
    /\ next_event' = None
    /\ CASE kind = "NewTx" ->
              /\ tx_pending' = broadcast_send(tx_pending, tx_subscribed,
                                   GossipData_new(TransactionBroadcast_NewTransaction(body),
                                                  peer_id, message_id))
              /\ UNCHANGED << rx_block, rx_consensus >>
         [] kind = "NewBlock" ->
              /\ LET sent == mpsc_send_not_awaited(rx_block,
                                   GossipData_new(BlockBroadcast_NewBlock(body),
                                                  peer_id, message_id))
                 IN  ~sent.waits /\ rx_block' = sent.queue
              /\ UNCHANGED << tx_pending, rx_consensus >>
         [] kind = "ConsensusVote" ->
              /\ LET sent == mpsc_send_not_awaited(rx_consensus,
                                   GossipData_new(ConsensusBroadcast_NewVote(body),
                                                  peer_id, message_id))
                 IN  ~sent.waits /\ rx_consensus' = sent.queue
              /\ UNCHANGED << tx_pending, rx_block >>
    /\ UNCHANGED << lifecycleVars, script, rx_request_event, responders,
                    tx_subscribed, rx_outbound_responses >>
    /\ UNCHANGED otherVars

\* select! branch p2p_service.next_event(): a RequestMessage::RequestBlock;
\* the lookup and the reply are left to a spawned task.
HandleRequestMessage(block_height, request_id) ==
    /\ task = "running"
    /\ next_event = Some(RequestMessageEvent(block_height, request_id))
    /\ next_event' = None
    /\ responders' = responders \cup
                        { [ block_height |-> block_height, request_id |-> request_id ] }
    /\ UNCHANGED << lifecycleVars, script, rx_request_event,
                    rx_outbound_responses >>
    /\ UNCHANGED << gossipVars, otherVars >>

\* The spawned responder: db.get_sealed_block(height).await, then
\* `let _ = tx_outbound_response.send(res);`
ResponderFinish(responder, found) ==
    /\ responder \in responders
    /\ responders' = responders \ { responder }
    /\ LET res == IF found
                  THEN Some(<< OutboundResponse_ResponseBlock(
                                   SealedBlock(responder.block_height)),
                               responder.request_id >>)
                  ELSE None
           sent == mpsc_send_not_awaited(rx_outbound_responses, res)
       IN  ~sent.waits /\ rx_outbound_responses' = sent.queue
    /\ UNCHANGED << lifecycleVars, script, rx_request_event, next_event >>
    /\ UNCHANGED << gossipVars, otherVars >>

\* select! branch self.rx_request_event.recv(): Stop breaks the loop and run()
\* returns Ok(self); a report whose peer id bytes do not parse panics in
\* try_into().unwrap(); every other event ends in a p2p_service call whose
\* result is dropped.
HandleRequestEvent ==
    /\ task = "running"
    /\ rx_request_event # << >>
    /\ LET request_event == Head(rx_request_event)
       IN  task' = CASE request_event.kind = "Stop" -> "ok"
                     [] request_event.kind = "GossipsubMessageReport"
                            /\ ~request_event.peer_ok -> "panicked"
                     [] OTHER -> "running"
    /\ rx_request_event' = Tail(rx_request_event)
    /\ UNCHANGED << network_orchestrator, join, caller, restore, script >>
    /\ UNCHANGED << eventVars, gossipVars, otherVars >>

\* Another component sends a request event (tx_request_event.send(..).await).
SendRequestEvent(request_event) ==
    /\ RequestReceiverAlive
    /\ Len(rx_request_event) < ReqCap
    /\ rx_request_event' = mpsc_send_awaited(rx_request_event, request_event)
    /\ UNCHANGED << lifecycleVars, script >>
    /\ UNCHANGED << eventVars, gossipVars, otherVars >>

\* A consumer subscribes to tx_transaction: it sees what is sent from now on.
Subscribe(r) ==
    /\ r \notin tx_subscribed
    /\ tx_subscribed' = tx_subscribed \cup { r }
    /\ UNCHANGED << lifecycleVars, script, rx_request_event, tx_pending, rx_block,
                    rx_consensus >>
    /\ UNCHANGED << eventVars, otherVars >>

\* A consumer drops its receiver.
Unsubscribe(r) ==
    /\ r \in tx_subscribed
    /\ tx_subscribed' = tx_subscribed \ { r }
    /\ tx_pending' = [ tx_pending EXCEPT ![r] = << >> ]
    /\ UNCHANGED << lifecycleVars, script, rx_request_event, rx_block,
                    rx_consensus >>
    /\ UNCHANGED << eventVars, otherVars >>

\* A consumer receives its oldest pending envelope.
RecvTransaction(r) ==
    /\ r \in tx_subscribed
    /\ tx_pending[r] # << >>
    /\ tx_pending' = [ tx_pending EXCEPT ![r] = Tail(@) ]
    /\ UNCHANGED << lifecycleVars, script, rx_request_event, tx_subscribed,
                    rx_block, rx_consensus >>
    /\ UNCHANGED << eventVars, otherVars >>

(***************************************************************************)
(* Specifications                                                          *)
(***************************************************************************)
\* VmDatabase::default(): an empty ContractsState column.
InitVm ==
    /\ database = EmptyDatabase
    /\ pre = EmptyDatabase
    /\ call = NoCall

\* VmDatabase::default(): height 0, over a store that records no block.
InitContext ==
    /\ context = [ current_block_height |-> 0, current_timestamp |-> Tai64(10),
                   coinbase |-> Address_zeroed ]
    /\ blocks = NoBlocks
    /\ host = NoHostCall

\* Service::new: the orchestrator is parked, nothing runs, every queue is
\* empty.
InitService ==
    /\ network_orchestrator = TRUE
    /\ join = FALSE
    /\ task = "none"
    /\ caller = [ c \in Callers |-> Returned("idle", "pending") ]
    /\ restore = FALSE
    /\ script = << >>
    /\ rx_request_event = << >>
    /\ next_event = None
    /\ responders = { }
    /\ tx_subscribed = { }
    /\ tx_pending = [ r \in Receivers |-> << >> ]
    /\ rx_block = << >>
    /\ rx_consensus = << >>
    /\ rx_outbound_responses = << >>

\* An envelope as the loop makes it for a gossiped transaction.
InitEnvelope ==
    /\ gossip_data = GossipData_new(TransactionBroadcast_NewTransaction("tx1"),
                                    "peer1", "message1")
    /\ gossip_log = NoGossipLog(TransactionBroadcast_NewTransaction("tx1"),
                                "peer1", "message1")

Init ==
    /\ InitVm
    /\ InitContext
    /\ InitEnvelope
    /\ InitService

\* The calls on one VmDatabase.
Next ==
    \/ \E c \in ContractIds, k \in Keys, v \in Bytes32Values : StorageInsert(c, k, v)
    \/ \E c \in ContractIds, k \in Keys, n \in Ranges : StateRange(c, k, n)
    \/ \E c \in ContractIds, k \in Keys, vs \in ValueSeqs : StateInsertRange(c, k, vs)
    \/ \E c \in ContractIds, k \in Keys, n \in Ranges : StateRemoveRange(c, k, n)
    \/ StateRangeAfterInsert
    \/ StateRemoveRangeAgain
    \/ Return

Spec == Init /\ [][Next]_vars

\* VmDatabase::new over a store that records every block below the current
\* one; the contract state is empty.
InitFrame ==
    /\ InitVm
    /\ InitEnvelope
    /\ InitService
    /\ context = [ current_block_height |-> MaxHeight, current_timestamp |-> Tai64(20),
                   coinbase |-> "address1" ]
    /\ blocks = [ h \in Heights |->
                    IF h < MaxHeight
                    THEN [ time |-> Some(Tai64(10)), id |-> Some(1) ]
                    ELSE [ time |-> None, id |-> None ] ]
    /\ host = NoHostCall

\* The storage calls and the host queries on one VmDatabase, each made when
\* the one before has returned.
NextFrame ==
    \/ \E c \in ContractIds, k \in Keys, v \in Bytes32Values : StorageInsert(c, k, v)
    \/ \E c \in ContractIds, k \in Keys, n \in Ranges : StateRange(c, k, n)
    \/ \E c \in ContractIds, k \in Keys, vs \in ValueSeqs : StateInsertRange(c, k, vs)
    \/ \E c \in ContractIds, k \in Keys, n \in Ranges : StateRemoveRange(c, k, n)
    \/ Return
    \/ BlockHeight
    \/ \E height \in Heights : Timestamp(height)
    \/ \E block_height \in Heights : BlockHash(block_height)
    \/ Coinbase
    \/ HostReturn

SpecFrame == InitFrame /\ [][NextFrame]_vars

\* The orchestrator loop and its channels; the service is started and
\* stopped by one controller.
NextP2p ==
    \/ \E c \in Controllers : StartCall(c)
    \/ \E c \in Controllers : StartLock(c)
    \/ \E c \in Controllers : Start(c)
    \/ \E c \in Controllers : StopCall(c)
    \/ \E c \in Controllers : StopTake(c)
    \/ \E c \in Controllers : StopSend(c)
    \/ RestoreFinish
    \/ \E created \in BOOLEAN : RunNewService(created)
    \/ \E event \in P2pEvents : P2pEvent(event)
    \/ \E kind \in GossipsubMessageKinds, message \in GossipsubMessages :
          HandleGossipsubMessage(kind, message.body, message.message_id,
                                 message.peer_id)
    \/ \E request \in RequestMessages :
          HandleRequestMessage(request.block_height, request.request_id)
    \/ \E responder \in RequestMessages, found \in BOOLEAN :
          ResponderFinish(responder, found)
    \/ HandleRequestEvent
    \/ \E r \in Receivers : Subscribe(r)
    \/ \E r \in Receivers : Unsubscribe(r)
    \/ \E r \in Receivers : RecvTransaction(r)

SpecP2p == Init /\ [][NextP2p]_vars

\* A queue that another holder of its sender has filled and nobody drains.
FullQueue(value) == [ i \in 1 .. MpscCap |-> value ]

\* The service as Service::new leaves it, over a block queue and a vote queue
\* that have no consumer and are both empty or both full.
InitBackpressure ==
    /\ InitVm
    /\ InitContext
    /\ InitEnvelope
    /\ network_orchestrator = TRUE
    /\ join = FALSE
    /\ task = "none"
    /\ caller = [ c \in Callers |-> Returned("idle", "pending") ]
    /\ restore = FALSE
    /\ script = << >>
    /\ rx_request_event = << >>
    /\ next_event = None
    /\ responders = { }
    /\ tx_subscribed = { }
    /\ tx_pending = [ r \in Receivers |-> << >> ]
    /\ \E full \in BOOLEAN :
          /\ rx_block =
                IF full
                THEN FullQueue(GossipData_new(BlockBroadcast_NewBlock("tx1"),
                                              "peer1", "message1"))
                ELSE << >>
          /\ rx_consensus =
                IF full
                THEN FullQueue(GossipData_new(ConsensusBroadcast_NewVote("tx1"),
                                              "peer1", "message1"))
                ELSE << >>
    /\ rx_outbound_responses = << >>

\* The runtime keeps polling the orchestrator task: a select! branch that is
\* ready is taken, and the task is started.
FairLoop ==
    /\ WF_vars(\E created \in BOOLEAN : RunNewService(created))
    /\ WF_vars(HandleRequestEvent)
    /\ WF_vars(\E kind \in GossipsubMessageKinds, message \in GossipsubMessages :
                  HandleGossipsubMessage(kind, message.body, message.message_id,
                                         message.peer_id))
    /\ WF_vars(\E request \in RequestMessages :
                  HandleRequestMessage(request.block_height, request.request_id))

SpecBackpressure == InitBackpressure /\ [][NextP2p]_vars /\ FairLoop

\* The Service handle: its concurrent callers, the run task, the restore
\* task and the components that send request events.
NextService ==
    \/ \E c \in Callers : StartCall(c)
    \/ \E c \in Callers : StartLock(c)
    \/ \E c \in Callers : Start(c)
    \/ \E c \in Callers : StopCall(c)
    \/ \E c \in Callers : StopTake(c)
    \/ \E c \in Callers : StopSend(c)
    \/ RestoreFinish
    \/ \E created \in BOOLEAN : RunNewService(created)
    \/ HandleRequestEvent
    \/ \E request_event \in ComponentRequestEvents : SendRequestEvent(request_event)

SpecService == Init /\ [][NextService]_vars

(***************************************************************************)
(* Fair scheduling of the service.  The tokio runtime polls every spawned  *)
(* task that can make progress, so the run task enters its loop and takes  *)
(* the next request event, and the restore task collects an ended run.  A  *)
(* sender waiting for room on the request channel is served in the order   *)
(* of arrival, so a stop() that waits to send Stop gets its turn although  *)
(* other senders keep filling the queue.                                   *)
(***************************************************************************)
FairService ==
    /\ WF_vars(\E created \in BOOLEAN : RunNewService(created))
    /\ WF_vars(HandleRequestEvent)
    /\ WF_vars(RestoreFinish)
    /\ \A c \in Callers : SF_vars(StopSend(c))

SpecServiceFair == SpecService /\ FairService

\* Two callers that contend for the service handle.
Contenders == { c \in Callers : c <= 2 }

\* The Service handle under its two contending callers, with the run task,
\* the restore task and the components that send request events.
NextContention ==
    \/ \E c \in Contenders : StartCall(c)
    \/ \E c \in Contenders : StartLock(c)
    \/ \E c \in Contenders : Start(c)
    \/ \E c \in Contenders : StopCall(c)
    \/ \E c \in Contenders : StopTake(c)
    \/ \E c \in Contenders : StopSend(c)
    \/ RestoreFinish
    \/ \E created \in BOOLEAN : RunNewService(created)
    \/ HandleRequestEvent
    \/ \E request_event \in ComponentRequestEvents : SendRequestEvent(request_event)

\* Fair scheduling of the tasks as in FairService, and of the calls: the
\* tokio Mutex hands the join lock to its waiters in the order of arrival,
\* and a call that holds it runs on.
FairContention ==
    /\ WF_vars(\E created \in BOOLEAN : RunNewService(created))
    /\ WF_vars(HandleRequestEvent)
    /\ WF_vars(RestoreFinish)
    /\ \A c \in Contenders : SF_vars(StartLock(c))
    /\ \A c \in Contenders : WF_vars(Start(c))
    /\ \A c \in Contenders : SF_vars(StopTake(c))
    /\ \A c \in Contenders : SF_vars(StopSend(c))

SpecContention == Init /\ [][NextContention]_vars /\ FairContention

\* The scripted caller alone with the tasks and the other components.
NextScript ==
    \/ ScriptStartCall
    \/ ScriptStartLock
    \/ ScriptStart
    \/ ScriptStopCall
    \/ ScriptStopTake
    \/ ScriptStopSend
    \/ RestoreFinish
    \/ \E created \in BOOLEAN : RunNewService(created)
    \/ HandleRequestEvent
    \/ \E request_event \in ComponentRequestEvents : SendRequestEvent(request_event)

SpecScript == Init /\ [][NextScript]_vars

\* VmDatabase::new: a context at any height and time, over a store that
\* records any of the blocks.
InitHost ==
    /\ InitVm
    /\ InitEnvelope
    /\ InitService
    /\ context \in [ current_block_height : Heights, current_timestamp : Tai64Values,
                      coinbase : { "address1" } ]
    /\ blocks \in [ Heights -> BlockRecords ]
    /\ host = NoHostCall

\* The host queries of the VM about blocks.
NextHost ==
    \/ \E height \in Heights : Timestamp(height)
    \/ \E block_height \in Heights : BlockHash(block_height)
    \/ HostReturn

SpecHost == InitHost /\ [][NextHost]_vars

\* GossipData::new on any payload, peer id and message id.
InitGossipData ==
    /\ InitVm
    /\ InitContext
    /\ InitService
    /\ \E data \in Payloads, from_peer \in PeerIds, under_id \in MessageIds :
          /\ gossip_data = GossipData_new(data, from_peer, under_id)
          /\ gossip_log = NoGossipLog(data, from_peer, under_id)

\* The calls of a consumer on one envelope.
NextGossipData ==
    \/ TakeData
    \/ ReadMessageId
    \/ ReadPeerId

SpecGossipData == InitGossipData /\ [][NextGossipData]_vars

Results == { "pending", "Ok", "AlreadyStarted", "StartingWhileStopping", "Some",
             "None" }

TypeOK ==
    /\ database \in [ MultiKeys -> { None } \cup { Some(v) : v \in Bytes32Values } ]
    /\ call.op \in { "none", "state_range", "state_insert_range",
                     "state_remove_range" }
    /\ context \in [ current_block_height : Heights, current_timestamp : Tai64Values,
                      coinbase : Addresses ]
    /\ blocks \in [ Heights -> BlockRecords ]
    /\ host.op \in { "none", "block_height", "timestamp", "block_hash", "coinbase" }
    /\ gossip_data.data \in { None } \cup { Some(data) : data \in Payloads }
    /\ Len(gossip_log.takes) <= MaxTakes
    /\ network_orchestrator \in BOOLEAN
    /\ join \in BOOLEAN
    /\ task \in { "none", "spawned", "running", "ok", "err", "panicked" }
    /\ \A c \in Callers : /\ caller[c].pc \in { "idle", "start_called", "start_locked",
                                              "stop_called", "stop_send" }
                          /\ caller[c].ret \in Results
    /\ restore \in BOOLEAN
    /\ Len(script) <= Len(ScriptCalls)
    /\ Len(rx_request_event) <= ReqCap
    /\ next_event \in { None } \cup { Some(event) : event \in P2pEvents }
    /\ responders \subseteq RequestMessages
    /\ tx_subscribed \subseteq Receivers
    /\ \A r \in Receivers : Len(tx_pending[r]) <= BroadcastCap
    /\ Len(rx_block) <= MpscCap
    /\ Len(rx_consensus) <= MpscCap

(***************************************************************************)
(* Properties of the range operations.                                     *)
(***************************************************************************)
\* The span [start_key, start_key + range) of the last call.
SpanOffsets == 0 .. (call.range - 1)

\* The slot of the last call's contract at offset i of its span, in db.
SlotAt(db, i) == db[MultiKey(call.contract_id, call.start_key + i)]

\* The span of the last call lies within the keyspace: start + n <= 2^256.
SpanInKeyspace == call.start_key + call.range <= U256_MAX + 1

\* C1 (read faithfulness): when merkle_contract_state_range succeeds, element
\* i of the result, 0 <= i < n, is exactly the content of the slot
\* (contract_id, start_key + i): Some(v) when the store holds v there, None
\* when it holds nothing; no other slot shows in the result.
C1_ReadFaithful ==
    (call.op = "state_range" /\ call.ok) =>
        /\ DOMAIN call.results = 1 .. call.range
        /\ \A i \in SpanOffsets :
              /\ call.start_key + i \in Keys
              /\ call.results[i + 1] = SlotAt(database, i)

\* A successful read of two slots, the first set and the second not, while the
\* slot right after the span is set and the other contracts hold other values.
C1_Witness ==
    /\ call.op = "state_range" /\ call.ok /\ call.range = 2
    /\ call.start_key + 2 \in Keys
    /\ call.results[1] # None /\ call.results[2] = None
    /\ SlotAt(database, 2) # None
    /\ \E c \in ContractIds \ { call.contract_id } :
          /\ database[MultiKey(c, call.start_key + 1)] # None
          /\ database[MultiKey(c, call.start_key)] # SlotAt(database, 0)

\* C2 (read totality): for every start_key and n with start_key + n <= 2^256,
\* merkle_contract_state_range succeeds and returns exactly n items.
C2_ReadTotality ==
    (call.op = "state_range" /\ SpanInKeyspace) =>
        (call.ok /\ Len(call.results) = call.range)

\* C3 (insert then read): a read of the span that a successful
\* merkle_contract_state_insert_range has just written succeeds and returns
\* Some(values[i]) at every position.
C3_InsertThenRead ==
    (call.op = "state_range" /\ call.follows = "state_insert_range") =>
        /\ call.ok
        /\ call.results = [ i \in 1 .. Len(call.values) |-> Some(call.values[i]) ]

\* A read-back of two inserted values.
C3_Witness ==
    /\ call.op = "state_range" /\ call.follows = "state_insert_range"
    /\ Len(call.values) = 2 /\ call.values[1] # call.values[2]
    /\ Len(call.results) = 2

\* C4 (insert preflight): if start_key + |values| > 2^256 the insert fails and
\* the store is as it was before the call; and no failed insert has written
\* anything (after the preflight the cursor increment never fails).
C4_InsertPreflight ==
    (call.op = "state_insert_range") =>
        /\ ~SpanInKeyspace => (~call.ok /\ call.err = KeyspaceOverflow)
        /\ ~call.ok => database = pre

\* A failed insert of two values starting at the maximal key, whose first
\* slot was empty before the call.
C4_Witness ==
    /\ call.op = "state_insert_range" /\ ~call.ok
    /\ call.start_key = U256_MAX /\ Len(call.values) = 2
    /\ pre[MultiKey(call.contract_id, U256_MAX)] = None

\* C5 (remove on a malformed range): if start_key + n > 2^256 the remove fails
\* and every slot of the store is the same after the call as before it.
C5_RemoveMalformedNoMutation ==
    (call.op = "state_remove_range" /\ ~SpanInKeyspace) =>
        (~call.ok /\ database = pre)

C7_RemoveFlag ==
    (call.op = "state_remove_range") =>
        /\ call.ok =>
              /\ call.res = Some(Unit) <=> \A i \in SpanOffsets : SlotAt(pre, i) # None
              /\ call.res = None <=> \E i \in SpanOffsets : SlotAt(pre, i) = None
        /\ ~call.ok => (call.err = KeyspaceOverflow /\ call.start_key + call.range > U256_MAX)

\* A successful remove of two slots, the first absent and the last set.
C7_Witness ==
    /\ call.op = "state_remove_range" /\ call.ok /\ call.range = 2
    /\ SlotAt(pre, 0) = None /\ SlotAt(pre, 1) # None
    /\ call.res = None

\* C8 as stated (remove idempotence): after a first successful remove, a
\* second remove over the same span, of any length, returns None and the
\* slots of the span are absent before and after it.
C8_RemoveTwiceAnyCount ==
    (call.op = "state_remove_range" /\ call.follows = "state_remove_range") =>
        /\ call.ok /\ call.res = None
        /\ \A i \in SpanOffsets : SlotAt(pre, i) = None /\ SlotAt(database, i) = None

\* C8 amended: the same for a span of at least one slot (n >= 1).
C8_RemoveTwice ==
    (call.op = "state_remove_range" /\ call.follows = "state_remove_range"
        /\ call.range >= 1) =>
        /\ call.ok /\ call.res = None
        /\ \A i \in SpanOffsets : SlotAt(pre, i) = None /\ SlotAt(database, i) = None

\* A second remove over a span of two slots.
C8_Witness ==
    /\ call.op = "state_remove_range" /\ call.follows = "state_remove_range"
    /\ call.range = 2 /\ call.ok /\ call.res = None

\* C9 (read overflow): if start_key + n > 2^256, merkle_contract_state_range
\* fails with the keyspace error and returns no result, whatever the store
\* holds.
C9_ReadOverflow ==
    (call.op = "state_range" /\ ~SpanInKeyspace) =>
        (~call.ok /\ call.err = KeyspaceOverflow /\ call.results = << >>)

\* A failed read of two slots from the maximal key while that key holds a
\* value: the overflow is hit on an iterator entry.
C9_Witness ==
    /\ call.op = "state_range" /\ ~call.ok
    /\ call.start_key = U256_MAX /\ call.range = 2
    /\ database[MultiKey(call.contract_id, U256_MAX)] # None

(***************************************************************************)
(* Properties of the orchestrator loop.                                    *)
(***************************************************************************)
\* The envelope a consumer expects for a transaction gossiped by peer_id
\* under message_id.
TxEnvelope(tx, peer_id, message_id) ==
    [ data |-> << [ kind |-> "NewTransaction", body |-> tx ] >>,
      peer_id |-> peer_id, message_id |-> message_id ]

\* What receiver r had pending, less the value it loses to a send when it is
\* a full channel behind.
KeptPending(r) ==
    IF Len(tx_pending[r]) < BroadcastCap THEN tx_pending[r] ELSE Tail(tx_pending[r])

\* C10 (transaction gossip fan-out): when the running loop handles a
\* GossipsubMessage NewTx(tx) with message id mid from peer pid, every
\* receiver subscribed to tx_transaction at that moment gets exactly one new
\* envelope, NewTransaction(tx) with peer_id = pid and message_id = mid, the
\* receivers not subscribed get nothing, and nothing is put on tx_block or
\* tx_consensus.
C10_TxFanOut ==
    [][ \A message \in GossipsubMessages :
          HandleGossipsubMessage("NewTx", message.body, message.message_id,
                                 message.peer_id) =>
             /\ \A r \in tx_subscribed :
                   tx_pending'[r] = Append(KeptPending(r),
                                           TxEnvelope(message.body, message.peer_id,
                                                      message.message_id))
             /\ \A r \in Receivers \ tx_subscribed : tx_pending'[r] = tx_pending[r]
             /\ rx_block' = rx_block
             /\ rx_consensus' = rx_consensus ]_vars

\* The loop is running and every receiver is subscribed and holds, as its
\* newest envelope, the same NewTransaction envelope, while tx_block and
\* tx_consensus are empty.
C10_Witness ==
    /\ task = "running"
    /\ tx_subscribed = Receivers
    /\ \E tx \in Txs, mid \in MessageIds, pid \in PeerIds :
          \A r \in Receivers :
             /\ tx_pending[r] # << >>
             /\ tx_pending[r][Len(tx_pending[r])] = TxEnvelope(tx, pid, mid)
    /\ rx_block = << >>
    /\ rx_consensus = << >>

\* The envelope a consumer of tx_block expects for a block gossiped by
\* peer_id under message_id.
BlockEnvelope(block, peer_id, message_id) ==
    [ data |-> << [ kind |-> "NewBlock", body |-> block ] >>,
      peer_id |-> peer_id, message_id |-> message_id ]

\* The envelope a consumer of tx_consensus expects for a gossiped vote.
VoteEnvelope(vote, peer_id, message_id) ==
    [ data |-> << [ kind |-> "NewVote", body |-> vote ] >>,
      peer_id |-> peer_id, message_id |-> message_id ]

\* C11 (block and vote gossip delivery): when the running loop handles a
\* GossipsubMessage NewBlock(block) (resp. ConsensusVote(vote)) while the
\* queue behind tx_block (resp. tx_consensus) is empty, hence has free
\* capacity, and its receiver is alive, exactly one envelope NewBlock(block)
\* (resp. NewVote(vote)) carrying the event's peer id and message id is put
\* on that queue, where its consumer can receive it.
C11_BlockVoteDelivery ==
    [][ \A message \in GossipsubMessages :
          /\ ( /\ HandleGossipsubMessage("NewBlock", message.body,
                                         message.message_id, message.peer_id)
               /\ rx_block = << >> )
                => rx_block' = << BlockEnvelope(message.body, message.peer_id,
                                               message.message_id) >>
          /\ ( /\ HandleGossipsubMessage("ConsensusVote", message.body,
                                         message.message_id, message.peer_id)
               /\ rx_consensus = << >> )
                => rx_consensus' = << VoteEnvelope(message.body, message.peer_id,
                                                  message.message_id) >> ]_vars

\* The reply the loop is to send for a block request answered with the
\* sealed block found at its height.
BlockReply(request) ==
    << [ kind |-> "ResponseBlock", body |-> [ sealed_block_at |-> request.block_height ] ],
       request.request_id >>

\* C12 (inbound block requests are answered): when the responder of a
\* RequestBlock(height) with request id r finds the sealed block and the
\* outbound-responses queue (capacity 100) is empty, hence has room, it puts
\* Some((ResponseBlock(block), r)) on that queue, from where the loop takes
\* it for its one call of send_response_msg(r, ResponseBlock(block)).
C12_BlockRequestAnswered ==
    [][ \A request \in RequestMessages :
          ( /\ ResponderFinish(request, TRUE)
            /\ rx_outbound_responses = << >> )
             => rx_outbound_responses' = << Some(BlockReply(request)) >> ]_vars

(***************************************************************************)
(* Properties of the Service handle.                                       *)
(***************************************************************************)
\* The scripted caller's start() has succeeded, its stop() has returned a
\* handle, and the task behind that handle has completed after run()
\* returned Ok: the run task is gone and its result has been collected.
StoppedAndRestored ==
    /\ script = << "Ok", "Some" >>
    /\ ~restore
    /\ task = "none"

\* C13 (restart after a completed stop): once start() has succeeded, stop()
\* has returned a handle and that handle's task has completed with run()
\* having returned Ok, the orchestrator is back in the parked slot, and the
\* next start() succeeds and spawns a new run of it, on the same channels.
C13_RestartAfterStop ==
    /\ [] ( StoppedAndRestored => network_orchestrator /\ ~join )
    /\ [][ ( StoppedAndRestored /\ ScriptStart ) =>
              /\ script' = << "Ok", "Some", "Ok" >>
              /\ join'
              /\ task' = "spawned"
              /\ rx_request_event' = rx_request_event
              /\ UNCHANGED << eventVars, gossipVars >> ]_vars

\* The third call of the script, start(), has succeeded after a completed
\* stop, and the run it spawned has not begun yet.
C13_Witness ==
    /\ script = << "Ok", "Some", "Ok" >>
    /\ task = "spawned"
    /\ join
    /\ ~network_orchestrator

\* C14 as stated (scenario S10): the scripted caller makes start(), stop(),
\* start(), waiting only for each call to return; all three calls succeed in
\* every interleaving with the run task and the restore task.
C14_AllThreeSucceed ==
    /\ Len(script) >= 1 => script[1] = "Ok"
    /\ Len(script) >= 2 => script[2] = "Some"
    /\ Len(script) >= 3 => script[3] = "Ok"

\* C14, amended: in every interleaving the first start() succeeds and stop()
\* returns a handle; the second start() succeeds when the restore task has
\* put the orchestrator back in the parked slot by then, and fails with
\* "Starting Network Orchestrator that is stopping" otherwise, leaving both
\* slots and the tasks as they were.
C14_ScriptOutcome ==
    /\ [] ( /\ Len(script) >= 1 => script[1] = "Ok"
            /\ Len(script) >= 2 => script[2] = "Some" )
    /\ [][ ( Len(script) = 2 /\ ScriptStart ) =>
              IF network_orchestrator
              THEN script' = << "Ok", "Some", "Ok" >>
              ELSE /\ script' = << "Ok", "Some", "StartingWhileStopping" >>
                   /\ UNCHANGED << network_orchestrator, join, task, restore,
                                   rx_request_event >> ]_vars

\* The second start() came before the restore task had finished: it failed.
C14_Witness ==
    /\ script = << "Ok", "Some", "StartingWhileStopping" >>
    /\ restore
    /\ ~network_orchestrator
    /\ ~join

\* The two slots, the tasks and the request queue: what a rejected call must
\* leave alone.
ServiceState == << network_orchestrator, join, task, restore, rx_request_event >>

\* C15 (the rejections of start and stop): start() fails with "already
\* started" exactly when the running slot holds a handle, and otherwise with
\* "starting while stopping" exactly when the parked slot is empty; stop()
\* returns None exactly when the running slot is empty.  A rejected call
\* changes neither slot, spawns no task and sends no Stop event.
C15_Rejections ==
    [][ \A c \in Callers :
          /\ Start(c) =>
                /\ caller'[c].ret = "AlreadyStarted" <=> join
                /\ caller'[c].ret = "StartingWhileStopping"
                      <=> ( ~join /\ ~network_orchestrator )
                /\ caller'[c].ret = "Ok" <=> ( ~join /\ network_orchestrator )
                /\ caller'[c].ret # "Ok" => UNCHANGED ServiceState
          /\ StopTake(c) =>
                /\ caller'[c].ret = "None" <=> ~join
                /\ caller'[c].ret = "None" => UNCHANGED ServiceState ]_vars

\* One caller's start() was rejected as already started, another's as
\* starting while stopping.
C15_Witness ==
    \E c \in Callers, d \in Callers :
       /\ caller[c] = Returned("idle", "AlreadyStarted")
       /\ caller[d] = Returned("idle", "StartingWhileStopping")

(***************************************************************************)
(* Properties of the host queries.                                         *)
(***************************************************************************)
\* C16 (host timestamp): with current block height c, timestamp(h) fails
\* when h > c; returns the context timestamp, without consulting the store,
\* when h = c; and when h < c returns the store's block_time(h), or the
\* store's error when it records no time for h.
C16_Timestamp ==
    host.op = "timestamp" =>
       LET h == host.height
           c == context.current_block_height
       IN  /\ h > c => ~host.ok /\ ~host.store_read
           /\ h = c => /\ host.ok
                       /\ host.val = context.current_timestamp.tai64
                       /\ ~host.store_read
           /\ h < c => /\ host.store_read
                       /\ IF blocks[h].time # None
                          THEN host.ok /\ host.val = blocks[h].time[1].tai64
                          ELSE ~host.ok /\ host.err = "NotFound"

\* timestamp(c) returned the context timestamp although the store records
\* another time for height c.
C16_Witness ==
    /\ host.op = "timestamp" /\ host.ok
    /\ host.height = context.current_block_height
    /\ blocks[host.height].time # None
    /\ blocks[host.height].time # Some(context.current_timestamp)
    /\ host.val = context.current_timestamp.tai64

\* C17 (host block hash): with current block height c, block_hash(h) is 32
\* zero bytes, without consulting the store, when h >= c or h = 0 (c = 0
\* included); for 0 < h < c it is the block id the store records for h, and
\* it fails with NotFound when the store records none.
C17_BlockHash ==
    host.op = "block_hash" =>
       LET h == host.height
           c == context.current_block_height
       IN  /\ ( h >= c \/ h = 0 ) => /\ host.ok
                                     /\ host.val = Bytes32_zeroed
                                     /\ ~host.store_read
           /\ ( 0 < h /\ h < c ) =>
                 /\ host.store_read
                 /\ IF blocks[h].id # None
                    THEN host.ok /\ host.val = blocks[h].id[1]
                    ELSE ~host.ok /\ host.err = "NotFound"

\* block_hash(0) returned zero under a current height above 0 although the
\* store records a block id for height 0.
C17_Witness ==
    /\ host.op = "block_hash" /\ host.ok
    /\ host.height = 0
    /\ context.current_block_height > 0
    /\ blocks[0].id # None
    /\ host.val = Bytes32_zeroed

(***************************************************************************)
(* Properties of the envelope.                                             *)
(***************************************************************************)
\* C18 (the envelope is taken once): on an envelope made by
\* GossipData::new(data, peer_id, message_id), the first take_data returns
\* Some(data) and every later one None, however the calls of message_id()
\* and peer_id() fall between them, and message_id() and peer_id() return
\* the ids the envelope was made with before and after any take_data.
C18_TakeOnce ==
    LET made == gossip_log.made
        takes == gossip_log.takes
    IN  /\ \A i \in 1 .. Len(takes) :
              takes[i] = IF i = 1 THEN Some(made.data) ELSE None
        /\ gossip_log.read.op = "message_id" =>
              gossip_log.read.val = MessageId_0(made.message_id)
        /\ gossip_log.read.op = "peer_id" =>
              gossip_log.read.val = PeerId_to_bytes(made.peer_id)
        /\ GossipData_message_id(gossip_data) = MessageId_0(made.message_id)
        /\ GossipData_peer_id(gossip_data) = PeerId_to_bytes(made.peer_id)

\* The payload was taken, a second take_data returned None, and peer_id()
\* was read on the emptied envelope.
C18_Witness ==
    /\ Len(gossip_log.takes) >= 2
    /\ gossip_log.takes[1] = Some(gossip_log.made.data)
    /\ gossip_log.takes[2] = None
    /\ gossip_data.data = None
    /\ gossip_log.read.op = "peer_id"

\* The state of the Service as its two slots show it.
ServiceStatus ==
    CASE network_orchestrator /\ ~join -> "Idle"
      [] ~network_orchestrator /\ join -> "Running"
      [] ~network_orchestrator /\ ~join -> "Stopping"
      [] OTHER -> "Both"

\* A run() is active: spawned and not yet returned.
RunActive == task \in { "spawned", "running" }

\* C19 (lifecycle state invariant): whatever the interleaving of concurrent
\* start() and stop() calls with the run task and the restore task, the
\* parked slot and the running slot are never both occupied, the service is
\* in one of Idle, Running and Stopping, and at most one run() loop is
\* active: the orchestrator is never parked while a run() owns it, and
\* start() never spawns a run() while another is active.
C19_LifecycleInvariant ==
    /\ [] ( /\ ~( network_orchestrator /\ join )
            /\ ServiceStatus \in { "Idle", "Running", "Stopping" }
            /\ RunActive => ~network_orchestrator )
    /\ [][ \A c \in Callers :
              ( Start(c) /\ caller'[c].ret = "Ok" ) => ~RunActive /\ RunActive' ]_vars

\* The service is Stopping with its loop still active, while one caller
\* holds the join lock for a start() and another has returned from stop().
C19_Witness ==
    /\ ServiceStatus = "Stopping"
    /\ task = "running"
    /\ restore
    /\ \E c \in Callers, d \in Callers :
          /\ caller[c].pc = "start_locked"
          /\ caller[d] = Returned("idle", "Some")

\* C20 (graceful stop is live): once a stop() has taken the handle of an
\* orchestrator whose loop is running, under fair scheduling the loop
\* dequeues Stop after the request events queued ahead of it, run() returns
\* the orchestrator and the restore task parks it: the service leaves
\* Stopping and reaches Idle.
C20_GracefulStop ==
    \A c \in Callers :
       ( caller[c].pc = "stop_send" /\ task = "running" ) ~> ( ServiceStatus = "Idle" )

\* C21 (only Stop ends the loop): once run() is in its loop, the loop ends
\* only by dequeuing a Stop request event, upon which run() returns Ok; no
\* other handled input ends it or makes run() return or abort, whatever a
\* GossipsubMessageReport event carries.
C21_OnlyStopEndsLoop ==
    [][ ( task = "running" /\ task' # "running" ) =>
          /\ rx_request_event # << >>
          /\ Head(rx_request_event) = StopEvent
          /\ rx_request_event' = Tail(rx_request_event)
          /\ task' = "ok" ]_vars

\* Some consumer of the transaction broadcast has a full backlog.
BroadcastBacklogFull ==
    \E r \in tx_subscribed : Len(tx_pending[r]) = BroadcastCap

\* C22 (backpressure never stalls the loop): whatever the state of the
\* queues the loop sends on, an event that next_event() yielded is handled and
\* the loop is back at the multiplex, and a Stop at the head of the request
\* queue is handled and ends the loop.
C22_NoStall ==
    /\ ( task = "running" /\ next_event # None )
          ~> ( next_event = None \/ task # "running" )
    /\ ( task = "running" /\ rx_request_event # << >> ) ~> ( task = "ok" )

\* The loop has ended on a Stop while the block queue and the vote queue were
\* full, a transaction consumer had a full backlog and a responder was still
\* at work.
C22_Witness ==
    /\ task = "ok"
    /\ Len(rx_block) = MpscCap
    /\ Len(rx_consensus) = MpscCap
    /\ BroadcastBacklogFull
    /\ responders # { }

\* C23 (overflow only past 2^256): merkle_contract_state_insert_range and
\* merkle_contract_state_remove_range succeed on every span with
\* start_key + n <= 2^256, the span that ends at the maximal key included.
C23_OverflowOnlyPastKeyspace ==
    ( call.op \in { "state_insert_range", "state_remove_range" }
      /\ SpanInKeyspace ) => call.ok

\* C24 (start and stop never deadlock): under fair scheduling every start()
\* and every stop() call that has been made returns, whatever the other
\* callers, the run task and the restore task do in between.
C24_CallsReturn ==
    \A c \in Contenders : ( caller[c].pc # "idle" ) ~> ( caller[c].pc = "idle" )

\* A stop() has sent its Stop and returned its handle, and the task it
\* spawned is still waiting for the run to end, while another caller's
\* start() holds the join lock.
C24_Witness ==
    \E c \in Contenders, d \in Contenders :
       /\ caller[c] = Returned("idle", "Some")
       /\ caller[d].pc = "start_locked"
       /\ restore
       /\ task = "running"

\* The request queue holds a Stop event.
StopQueued == \E i \in DOMAIN rx_request_event : rx_request_event[i] = StopEvent

\* While the orchestrator is parked the request queue holds no Stop event.
NoStopWhileParked == network_orchestrator => ~StopQueued

\* C25 as stated (no stale Stop survives a restart): whenever the
\* orchestrator is parked the request queue holds no Stop event, and the run
\* task spawned by a successful start() does not end before a stop() call
\* has taken its handle.
C25_RunOutlivesStart ==
    /\ []NoStopWhileParked
    /\ [][ ( RunActive /\ ~RunActive' ) => ~join ]_vars

\* C25 (no stale Stop survives a restart): whenever the orchestrator is
\* parked the request queue holds no Stop event, and run() returns Ok only
\* by taking the one Stop on the queue, sent by the stop() call that took its
\* handle: that call has taken the handle, sent its Stop and spawned its
\* restore task.
C25_NoStaleStop ==
    /\ []NoStopWhileParked
    /\ [][ ( RunActive /\ task' = "ok" ) =>
              /\ ~join
              /\ restore
              /\ Head(rx_request_event) = StopEvent
              /\ rx_request_event' = Tail(rx_request_event)
              /\ ~StopQueued' ]_vars

\* The orchestrator is parked again after a stop() returned its handle and
\* the run completed, request events of other components wait on the queue,
\* and another caller's start() holds the join lock.
C25_Witness ==
    /\ network_orchestrator
    /\ ~join
    /\ task = "none"
    /\ rx_request_event # << >>
    /\ \E c \in Callers, d \in Callers :
          /\ caller[c] = Returned("idle", "Some")
          /\ caller[d].pc = "start_locked"

\* The physical keys of the span of a call on (contract_id, start_key, range).
SpanKeys(c) ==
    { MultiKey(c.contract_id, c.start_key + i) : i \in 0 .. (c.range - 1) }

\* C26 (range operations touch only their own span): whether they succeed
\* or fail, merkle_contract_state_insert_range and
\* merkle_contract_state_remove_range leave every slot outside the span of the
\* call as it was, in the contract of the call and in every other contract;
\* merkle_contract_state_range and the host queries block_height, timestamp,
\* block_hash and coinbase leave the whole store as it was; no call changes
\* the execution context.
C26_Frame ==
    [][ /\ context' = context
        /\ blocks' = blocks
        /\ ( call'.op \in { "state_insert_range", "state_remove_range" } =>
                \A mk \in MultiKeys \ SpanKeys(call') : database'[mk] = database[mk] )
        /\ ( call'.op = "state_range" => database' = database )
        /\ ( host'.op # "none" => database' = database /\ call' = call ) ]_vars

\* A remove over two slots has failed after deleting the slot at the maximal
\* key, while the slot just below the span and the same keys of the other
\* contract are still set.
C26_Witness ==
    /\ call.op = "state_remove_range" /\ ~call.ok
    /\ call.start_key = U256_MAX /\ call.range = 2
    /\ pre[MultiKey(call.contract_id, U256_MAX)] # None
    /\ database[MultiKey(call.contract_id, U256_MAX)] = None
    /\ database[MultiKey(call.contract_id, U256_MAX - 1)] # None
    /\ \E c \in ContractIds \ { call.contract_id } :
          database[MultiKey(c, U256_MAX)] # None
====
